---- MODULE Spec2Model ----
(***************************************************************************)
(* gputemp.py: a sampler that reads the GPU temperature from nvidia-smi,   *)
(* stores each successful sample in an SQLite table and shows the most     *)
(* recent ones.  The model follows one run of main() after another on the  *)
(* same database file, with a second process querying the file while a     *)
(* run is active.                                                          *)
(***************************************************************************)
EXTENDS Integers, Sequences, FiniteSets, TLC

VARIABLES
    db,               \* committed rows of gpu_temperatures, in rowid order
    tableExists,      \* the table gpu_temperatures exists in the file
    txn,              \* rows written by the open connection, not yet committed
    conn,             \* the running process holds an open connection
    clock,            \* time.time(), in milliseconds
    tzOffset,         \* local time minus time.time(), in milliseconds
    pc,               \* position of the running process in main()
    mode,             \* "single", "monitor" or "query" (args.query / args.monitor)
    limit,            \* args.limit
    interval_ms,      \* args.interval
    duration_seconds, \* args.duration
    end_time,         \* monitor_temperature's end_time, in milliseconds
    timestamp,        \* log_temperature's timestamp
    gpu_temp,         \* log_temperature's gpu_temp: <<>> is None, <<v>> a value
    cmd_output,       \* what the sensor command gave to a call of
                      \* get_gpu_temperature that has not returned yet
    results,          \* query_temperatures' results
    exc,              \* the exception in flight: "none", "sqlite" or "kbint"
    exitStatus,       \* exit status of the last finished run, -1 while running
    log,              \* log lines of the current run
    readerResult,     \* what a second process last fetched during this run
    readerPending,    \* txn held uncommitted rows when it fetched
    \* history of the current run, kept for the properties
    db0,              \* db when the run started
    ticks,            \* sampling cycles started
    sensorReads,      \* calls of get_gpu_temperature
    okReads,          \* calls of get_gpu_temperature that returned a value
    start_clock,      \* monitor_temperature's start_time, in milliseconds
    atInterrupt,      \* <<[db, pc, mode, ticks]>> when the interrupt arrived,
                      \* <<>> without one
    failedAt          \* pc at which a storage step failed, "" if none

vars == <<db, tableExists, txn, conn, clock, tzOffset, pc, mode, limit,
          interval_ms, duration_seconds, end_time, timestamp, gpu_temp,
          cmd_output, results, exc, exitStatus, log, readerResult, readerPending,
          db0, ticks, sensorReads, okReads, start_clock, atInterrupt,
          failedAt>>

(***************************************************************************)
(* Bounds of the model.                                                    *)
(***************************************************************************)
MaxTicks == 2       \* sampling cycles that fit into one monitoring run
MaxRows == 2        \* rows the database file is filled up to
MaxClockSteps == 2  \* times the clock is seen to advance on its own
ClockStep == 1000   \* granularity of the clock, in milliseconds
MaxLen == 3         \* characters the sensor command prints
MaxTemp == 120      \* largest temperature whose decimal text is tried

MsPerSec == 1000
DefaultLimit == 10
DefaultInterval == 1000
DefaultDuration == 60

MaxClock == MaxClockSteps * ClockStep

Modes == {"single", "monitor", "query"}
Limits == {-1, 0, 1, 2}
Intervals == {0, ClockStep}
Durations == {0, 1}

None == <<>>
Some(v) == <<v>>

(***************************************************************************)
(* Text of the sensor command: a sequence of one-character strings.        *)
(***************************************************************************)
Digits == {"0", "1", "2", "3", "4", "5", "6", "7", "8", "9"}
Whitespace == {" ", "\n", "\t", "\r"}

DigitVal(c) ==
    CASE c = "0" -> 0 [] c = "1" -> 1 [] c = "2" -> 2 [] c = "3" -> 3
      [] c = "4" -> 4 [] c = "5" -> 5 [] c = "6" -> 6 [] c = "7" -> 7
      [] c = "8" -> 8 [] c = "9" -> 9

RECURSIVE lstrip(_)
lstrip(s) ==
    IF s # <<>> /\ Head(s) \in Whitespace THEN lstrip(Tail(s)) ELSE s

RECURSIVE rstrip(_)
rstrip(s) ==
    IF s # <<>> /\ s[Len(s)] \in Whitespace
    THEN rstrip(SubSeq(s, 1, Len(s) - 1))
    ELSE s

\* str.strip()
strip(s) == rstrip(lstrip(s))

\* the digits part of an integer literal: digits, single underscores between them
IsDigitString(s) ==
    /\ s # <<>>
    /\ \A i \in 1..Len(s) : s[i] \in Digits \cup {"_"}
    /\ s[1] \in Digits
    /\ s[Len(s)] \in Digits
    /\ \A i \in 1..(Len(s) - 1) : ~(s[i] = "_" /\ s[i + 1] = "_")

RECURSIVE DigitsValue(_, _)
DigitsValue(s, acc) ==
    IF s = <<>> THEN acc
    ELSE IF Head(s) = "_" THEN DigitsValue(Tail(s), acc)
    ELSE DigitsValue(Tail(s), acc * 10 + DigitVal(Head(s)))

\* int(s) succeeds (it raises ValueError otherwise)
IntParses(s) ==
    LET t == strip(s)
    IN  /\ t # <<>>
        /\ IF Head(t) \in {"+", "-"} THEN IsDigitString(Tail(t))
           ELSE IsDigitString(t)

\* int(s) losing the sign
IntValue_Unsigned(s) ==
    LET t == strip(s)
    IN  IF Head(t) \in {"+", "-"} THEN DigitsValue(Tail(t), 0)
        ELSE DigitsValue(t, 0)

\* int(s) where it succeeds
IntValue(s) ==
    LET t == strip(s)
    IN  IF Head(t) = "-" THEN 0 - DigitsValue(Tail(t), 0)
        ELSE IF Head(t) = "+" THEN DigitsValue(Tail(t), 0)
        ELSE DigitsValue(t, 0)

\* what os.popen(...).read() can give, with the exit status of the command
\* (which read() does not look at)
SensorOutputs ==
    { [status |-> 0,   text |-> <<"6", "2", "\n">>],
      [status |-> 127, text |-> <<>>],
      [status |-> 9,   text |-> <<"6", "2", "\n">>],
      [status |-> 0,   text |-> <<"\n">>],
      [status |-> 0,   text |-> <<"N", "/", "A", "\n">>],
      [status |-> 0,   text |-> <<"6", "2", "\n", "7", "0", "\n">>] }

\* no call of get_gpu_temperature is under way
NoOutput == [status |-> 0, text |-> <<>>]

\* the characters and the exit statuses the sensor command is tried with
SensorAlphabet == {"6", "2", "0", "-", "+", "_", " ", "\n", "N"}
Statuses == {0, 1, 127}

\* every text of at most MaxLen characters, with every exit status
CommandOutputs ==
    { [status |-> st, text |-> t] :
        st \in Statuses,
        t \in UNION { [1..n -> SensorAlphabet] : n \in 0..MaxLen } }

\* a line of the log
Line(level, msg, arg) == [level |-> level, msg |-> msg, arg |-> arg]

\* get_gpu_temperature() on the command output out
get_gpu_temperature(out) ==
    LET result == strip(out.text)
    IN  IF result = <<>> THEN None
        ELSE IF IntParses(result) THEN Some(IntValue(result))
        ELSE None

\* the lines get_gpu_temperature() logs on the command output out
get_gpu_temperature_log(out) ==
    LET result == strip(out.text)
    IN  IF result # <<>> /\ ~IntParses(result)
        THEN <<Line("error", "getting GPU temperature", <<>>)>>
        ELSE <<>>

(***************************************************************************)
(* The table gpu_temperatures.  A row is [id, timestamp, temperature]; the *)
(* timestamp column holds the ISO text of a local datetime, whose text     *)
(* order is the order of the times, so the times stand for it.             *)
(***************************************************************************)
Row(id, ts, temp) == [id |-> id, timestamp |-> ts, temperature |-> temp]

\* the columns a SELECT timestamp, temperature returns of a row
Selected(r) == <<r.timestamp, r.temperature>>

\* LIMIT taking 0 as no limit too
LimitCount_ZeroIsAll(n, k) == IF n <= 0 THEN k ELSE IF n < k THEN n ELSE k

\* LIMIT n on k rows: a negative limit is no limit
LimitCount(n, k) == IF n < 0 THEN k ELSE IF n < k THEN n ELSE k

RowOrders(n) ==
    { p \in [1..n -> 1..n] : \A i, j \in 1..n : i # j => p[i] # p[j] }

\* ORDER BY timestamp DESC: the orders of the rows SQLite may produce
\* (it leaves the order of rows with equal timestamps open)
OrderByTimestampDesc(rows) ==
    { p \in RowOrders(Len(rows)) :
        \A i \in 1..(Len(rows) - 1) :
            rows[p[i]].timestamp >= rows[p[i + 1]].timestamp }

\* the results cursor.fetchall() may return for
\* SELECT timestamp, temperature ... ORDER BY timestamp DESC LIMIT n
SelectRecent(rows, n) ==
    { [i \in 1..LimitCount(n, Len(rows)) |-> Selected(rows[p[i]])] :
        p \in OrderByTimestampDesc(rows) }

\* INSERT INTO gpu_temperatures (timestamp, temperature) VALUES (?, ?)
\* on a connection that sees rows and has written pending
InsertRow(rows, pending, ts, temp) ==
    Append(pending, Row(Len(rows) + Len(pending) + 1, ts, temp))

\* a commit that writes the pending rows over the table
Commit_Overwriting(rows, pending) == pending

\* conn.commit(): the rows written become part of the table
Commit(rows, pending) == rows \o pending

\* the table dropped and created again
CreateTable_Recreated(exists, rows) == <<>>

\* CREATE TABLE IF NOT EXISTS gpu_temperatures: the rows after it
CreateTableIfNotExists(exists, rows) == IF exists THEN rows ELSE <<>>

\* datetime.datetime.now(): the local time
Now == clock + tzOffset

(***************************************************************************)
(* The state after construction: an empty database file, nothing running.  *)
(***************************************************************************)
FreshState ==
    /\ db = <<>>
    /\ tableExists = FALSE
    /\ txn = <<>>
    /\ conn = FALSE
    /\ clock = 0
    /\ tzOffset = ClockStep
    /\ mode = "single"
    /\ limit = DefaultLimit
    /\ interval_ms = DefaultInterval
    /\ duration_seconds = DefaultDuration
    /\ end_time = 0
    /\ timestamp = 0
    /\ gpu_temp = None
    /\ results = <<>>
    /\ exc = "none"
    /\ exitStatus = -1
    /\ log = <<>>
    /\ readerResult = <<>>
    /\ readerPending = FALSE
    /\ db0 = <<>>
    /\ ticks = 0
    /\ sensorReads = 0
    /\ okReads = 0
    /\ start_clock = 0
    /\ atInterrupt = <<>>
    /\ failedAt = ""

Init ==
    /\ FreshState
    /\ pc = "idle"
    /\ cmd_output = NoOutput

store == <<db, tableExists, txn, conn>>
env == <<clock, tzOffset>>
args == <<mode, limit, interval_ms, duration_seconds>>
locals == <<end_time, timestamp, gpu_temp, cmd_output, results>>
reader == <<readerResult, readerPending>>
counters == <<ticks, sensorReads, okReads, start_clock>>
hist == <<db0, counters, atInterrupt, failedAt>>

\* positions inside log_temperature
LogPcs == {"log_now", "log_read", "log_connect", "log_execute", "log_commit",
           "log_close", "log_info", "log_return", "log_except"}

\* positions inside the try block of monitor_temperature (lines 98-108),
\* calls included
MonitorTryPcs == {"mon_start", "mon_test", "mon_sleep", "mon_done"} \cup LogPcs

\* positions at which the next statement opens, writes or commits the store
StoragePcs == {"init_connect", "init_execute", "init_commit",
               "log_connect", "log_execute", "log_commit",
               "query_connect", "query_select"}

(***************************************************************************)
(* main(): argument parsing and start of a run.                            *)
(***************************************************************************)
Start(m, l, i, d) ==
    /\ pc = "idle"
    /\ m = "monitor" => clock + d * MsPerSec <= MaxClock
    /\ m = "single" => Len(db) < MaxRows
    /\ pc' = "init_connect"
    /\ mode' = m
    /\ limit' = l
    /\ interval_ms' = i
    /\ duration_seconds' = d
    /\ exitStatus' = -1
    /\ log' = <<>>
    /\ failedAt' = ""
    /\ atInterrupt' = <<>>
    /\ db0' = db
    /\ UNCHANGED <<store, env, locals, exc, reader, counters>>

StartRun ==
    \E m \in Modes :
        \E l \in (IF m = "query" THEN Limits ELSE {DefaultLimit}) :
            \E i \in (IF m = "monitor" THEN Intervals ELSE {DefaultInterval}) :
                \E d \in (IF m = "monitor" THEN Durations ELSE {DefaultDuration}) :
                    Start(m, l, i, d)

(***************************************************************************)
(* init_database                                                           *)
(***************************************************************************)
InitConnect ==
    /\ pc = "init_connect"
    /\ conn' = TRUE
    /\ pc' = "init_execute"
    /\ UNCHANGED <<db, tableExists, txn, env, args, locals, exc, exitStatus,
                   log, reader, hist>>

InitExecute ==
    /\ pc = "init_execute"
    /\ db' = CreateTableIfNotExists(tableExists, db)
    /\ tableExists' = TRUE
    /\ pc' = "init_commit"
    /\ UNCHANGED <<txn, conn, env, args, locals, exc, exitStatus, log, 
                   reader, hist>>

InitCommit ==
    /\ pc = "init_commit"
    /\ db' = Commit(db, txn)
    /\ txn' = <<>>
    /\ pc' = "init_close"
    /\ UNCHANGED <<tableExists, conn, env, args, locals, exc, exitStatus, log,
                   reader, hist>>

InitClose ==
    /\ pc = "init_close"
    /\ conn' = FALSE
    /\ pc' = "dispatch"
    /\ UNCHANGED <<db, tableExists, txn, env, args, locals, exc, exitStatus,
                   log, reader, hist>>

\* lines 50-52 without the raise: main goes on to line 169
InitExcept_Swallowed ==
    /\ pc = "init_except"
    /\ log' = Append(log, Line("error", "initializing database", <<>>))
    /\ pc' = "dispatch"
    /\ UNCHANGED <<store, env, args, locals, exc, exitStatus, reader,
                   hist>>

\* lines 50-52
InitExcept ==
    /\ pc = "init_except"
    /\ log' = Append(log, Line("error", "initializing database", <<>>))
    /\ pc' = "main_except"
    /\ UNCHANGED <<store, env, args, locals, exc, exitStatus, reader,
                   hist>>

\* main, lines 169-174
MainDispatch ==
    /\ pc = "dispatch"
    /\ pc' = IF mode = "query" THEN "query_connect"
             ELSE IF mode = "monitor" THEN "mon_start"
             ELSE "log_now"
    /\ UNCHANGED <<store, env, args, locals, exc, exitStatus, log, 
                   reader, hist>>

(***************************************************************************)
(* log_temperature: one sampling cycle.                                    *)
(***************************************************************************)
\* line 68 without its test: the insert is made whatever was read
AfterRead_Unchecked(temp) == "log_connect"

\* line 68 with a read without a value treated as an error
AfterRead_Raising(temp) == IF temp # None THEN "log_connect" ELSE "log_except"

\* line 68: where the cycle goes after the read
AfterRead(temp) == IF temp # None THEN "log_connect" ELSE "log_return"

\* line 65
LogTimestamp ==
    /\ pc = "log_now"
    /\ timestamp' = Now
    /\ ticks' = ticks + 1
    /\ pc' = "log_read"
    /\ UNCHANGED <<store, env, args, end_time, gpu_temp, cmd_output, results, exc,
                   exitStatus, log, reader, db0, sensorReads, okReads,
                   start_clock, atInterrupt, failedAt>>

\* line 66
LogReadSensor(out) ==
    /\ pc = "log_read"
    /\ gpu_temp' = get_gpu_temperature(out)
    /\ log' = log \o get_gpu_temperature_log(out)
    /\ sensorReads' = sensorReads + 1
    /\ okReads' = IF gpu_temp' # None THEN okReads + 1 ELSE okReads
    /\ pc' = AfterRead(gpu_temp')
    /\ UNCHANGED <<store, env, args, end_time, timestamp, cmd_output, results, exc,
                   exitStatus, reader, db0, ticks, start_clock, atInterrupt,
                   failedAt>>

ReadSensor == \E out \in SensorOutputs : LogReadSensor(out)

\* line 69
LogConnect ==
    /\ pc = "log_connect"
    /\ conn' = TRUE
    /\ pc' = "log_execute"
    /\ UNCHANGED <<db, tableExists, txn, env, args, locals, exc, exitStatus,
                   log, reader, hist>>

\* lines 71-74
LogExecute ==
    /\ pc = "log_execute"
    /\ tableExists
    /\ txn' = InsertRow(db, txn, timestamp, gpu_temp)
    /\ pc' = "log_commit"
    /\ UNCHANGED <<db, tableExists, conn, env, args, locals, exc, exitStatus,
                   log, reader, hist>>

\* line 75
LogCommit ==
    /\ pc = "log_commit"
    /\ db' = Commit(db, txn)
    /\ txn' = <<>>
    /\ pc' = "log_close"
    /\ UNCHANGED <<tableExists, conn, env, args, locals, exc, exitStatus, log,
                   reader, hist>>

\* log_temperature without line 76: the connection stays open
LogClose_Skipped ==
    /\ pc = "log_close"
    /\ pc' = "log_info"
    /\ UNCHANGED <<store, env, args, locals, exc, exitStatus, log, reader,
                   hist>>

\* line 76
LogClose ==
    /\ pc = "log_close"
    /\ conn' = FALSE
    /\ pc' = "log_info"
    /\ UNCHANGED <<db, tableExists, txn, env, args, locals, exc, exitStatus,
                   log, reader, hist>>

\* line 78
LogInfo ==
    /\ pc = "log_info"
    /\ log' = Append(log, Line("info", "GPU Temperature", gpu_temp))
    /\ pc' = "log_return"
    /\ UNCHANGED <<store, env, args, locals, exc, exitStatus, reader,
                   hist>>

\* the loop of line 104 without the sleep of line 106
AfterCycle_NoWait(m) == IF m = "monitor" THEN "mon_test" ELSE "main_exit"

\* main repeating the cycle instead of ending after line 174
AfterCycle_Repeated(m) == IF m = "monitor" THEN "mon_sleep" ELSE "log_now"

\* where the caller goes on after the cycle: line 106 in
\* monitor_temperature, the end of main after line 174
AfterCycle(m) == IF m = "monitor" THEN "mon_sleep" ELSE "main_exit"

\* lines 80-83, back in the caller
LogReturn ==
    /\ pc = "log_return"
    /\ pc' = AfterCycle(mode)
    /\ UNCHANGED <<store, env, args, locals, exc, exitStatus, log, 
                   reader, hist>>

\* lines 85-87 without the raise: the caller goes on
LogRaiseTo_Swallowed(m) == IF m = "monitor" THEN "mon_sleep" ELSE "main_exit"

\* lines 85-87: where the exception goes after the handler re-raises it
LogRaiseTo(m) == IF m = "monitor" THEN "mon_except" ELSE "main_except"

LogExcept ==
    /\ pc = "log_except"
    /\ log' = Append(log, Line("error", "logging temperature to database", <<>>))
    /\ pc' = LogRaiseTo(mode)
    /\ UNCHANGED <<store, env, args, locals, exc, exitStatus, reader,
                   hist>>

(***************************************************************************)
(* monitor_temperature                                                     *)
(***************************************************************************)
\* line 100, in milliseconds
EndTime(start_time, duration) == start_time + duration * MsPerSec

\* line 104 with <= for <
LoopContinues_Inclusive(now, end) == now <= end

\* line 104: the loop condition
LoopContinues(now, end) == now < end

\* lines 99-102
MonStart ==
    /\ pc = "mon_start"
    /\ start_clock' = clock
    /\ end_time' = EndTime(clock, duration_seconds)
    /\ log' = Append(log, Line("info", "Starting temperature monitoring", <<>>))
    /\ pc' = "mon_test"
    /\ UNCHANGED <<store, env, args, timestamp, gpu_temp, cmd_output, results, exc,
                   exitStatus, reader, db0, ticks, sensorReads, okReads,
                   atInterrupt, failedAt>>

\* line 104, the condition holds: the next cycle starts
MonLoopEnter ==
    /\ pc = "mon_test"
    /\ LoopContinues(clock, end_time)
    /\ ticks < MaxTicks
    /\ Len(db) < MaxRows
    /\ pc' = "log_now"
    /\ UNCHANGED <<store, env, args, locals, exc, exitStatus, log, 
                   reader, hist>>

\* line 104, the condition fails: the loop is left
MonLoopExit ==
    /\ pc = "mon_test"
    /\ ~LoopContinues(clock, end_time)
    /\ pc' = "mon_done"
    /\ UNCHANGED <<store, env, args, locals, exc, exitStatus, log, 
                   reader, hist>>

\* line 106: time.sleep returns once interval_ms / 1000 seconds have passed
MonSleep ==
    /\ pc = "mon_sleep"
    /\ clock' = clock + interval_ms
    /\ pc' = "mon_test"
    /\ UNCHANGED <<store, tzOffset, args, locals, exc, exitStatus, log, 
                   reader, hist>>

\* line 108
MonDone ==
    /\ pc = "mon_done"
    /\ log' = Append(log, Line("info", "Temperature monitoring completed", <<>>))
    /\ pc' = "main_exit"
    /\ UNCHANGED <<store, env, args, locals, exc, exitStatus, reader,
                   hist>>

\* lines 110-111: the interrupt is handled and the function returns; the
\* frame of log_temperature is gone, and with it its connection and what
\* that connection had not committed
MonInterrupted ==
    /\ pc = "mon_kbint"
    /\ log' = Append(log, Line("info", "Temperature monitoring stopped by user", <<>>))
    /\ exc' = "none"
    /\ conn' = FALSE
    /\ txn' = <<>>
    /\ pc' = "main_exit"
    /\ UNCHANGED <<db, tableExists, env, args, locals, exitStatus, 
                   reader, hist>>

\* lines 112-114
MonExcept ==
    /\ pc = "mon_except"
    /\ log' = Append(log, Line("error", "during temperature monitoring", <<>>))
    /\ pc' = "main_except"
    /\ UNCHANGED <<store, env, args, locals, exc, exitStatus, reader,
                   hist>>

(***************************************************************************)
(* query_temperatures                                                      *)
(***************************************************************************)
\* line 125
QueryConnect ==
    /\ pc = "query_connect"
    /\ conn' = TRUE
    /\ pc' = "query_select"
    /\ UNCHANGED <<db, tableExists, txn, env, args, locals, exc, exitStatus,
                   log, reader, hist>>

\* a statement that takes the rows it returns out of the table
SelectLeaves_Consumed(rows) == <<>>

\* lines 127-132: the rows of the table after the SELECT statement
SelectLeaves(rows) == rows

\* lines 126-134
QuerySelect ==
    /\ pc = "query_select"
    /\ tableExists
    /\ results' \in SelectRecent(db, limit)
    /\ db' = SelectLeaves(db)
    /\ pc' = "query_close"
    /\ UNCHANGED <<tableExists, txn, conn, env, args, end_time, timestamp,
                   gpu_temp, cmd_output, exc, exitStatus, log, reader, hist>>

\* line 135
QueryClose ==
    /\ pc = "query_close"
    /\ conn' = FALSE
    /\ pc' = "query_render"
    /\ UNCHANGED <<db, tableExists, txn, env, args, locals, exc, exitStatus,
                   log, reader, hist>>

\* lines 137-142: the lines shown for the results rs of a query with limit n
Rendered(rs, n) ==
    IF rs # <<>>
    THEN <<Line("info", "Last temperature readings", <<n>>)>>
         \o [i \in 1..Len(rs) |-> Line("info", "reading", rs[i])]
    ELSE <<Line("info", "No temperature readings found in database", <<>>)>>

QueryRender ==
    /\ pc = "query_render"
    /\ log' = log \o Rendered(results, limit)
    /\ pc' = "main_exit"
    /\ UNCHANGED <<store, env, args, locals, exc, exitStatus, reader,
                   hist>>

\* lines 144-146
QueryExcept ==
    /\ pc = "query_except"
    /\ log' = Append(log, Line("error", "querying temperatures", <<>>))
    /\ pc' = "main_except"
    /\ UNCHANGED <<store, env, args, locals, exc, exitStatus, reader,
                   hist>>

(***************************************************************************)
(* Exceptions: a storage step that raises, and the interrupt.              *)
(***************************************************************************)
\* the except clause that catches an sqlite3 error raised at position p
HandlerOf(p) ==
    IF p \in {"init_connect", "init_execute", "init_commit"} THEN "init_except"
    ELSE IF p \in {"log_connect", "log_execute", "log_commit"} THEN "log_except"
    ELSE "query_except"

\* sqlite3.connect, execute or commit raises: nothing is written
StorageFailure ==
    /\ pc \in StoragePcs
    /\ exc' = "sqlite"
    /\ failedAt' = pc
    /\ pc' = HandlerOf(pc)
    /\ UNCHANGED <<store, env, args, locals, exitStatus, log, reader,
                   db0, counters, atInterrupt>>

\* the handlers of log_temperature and monitor_temperature catching the
\* interrupt as they catch an error
InterruptTo_AsError(m, p) ==
    IF p \in LogPcs THEN "log_except"
    ELSE IF m = "monitor" /\ p \in MonitorTryPcs THEN "mon_except"
    ELSE "died"

\* where a KeyboardInterrupt raised at position p of a run in mode m is
\* caught: by line 110 inside the try block of monitor_temperature, by
\* nothing elsewhere (except Exception does not catch it)
InterruptTo(m, p) ==
    IF m = "monitor" /\ p \in MonitorTryPcs THEN "mon_kbint" ELSE "died"

Interrupt ==
    /\ pc \notin {"idle", "died", "mon_kbint"}
    /\ atInterrupt = <<>>
    /\ atInterrupt' = <<[db |-> db, pc |-> pc, mode |-> mode, ticks |-> ticks]>>
    /\ exc' = "kbint"
    /\ pc' = InterruptTo(mode, pc)
    /\ UNCHANGED <<store, env, args, locals, exitStatus, log, reader,
                   db0, counters, failedAt>>

(***************************************************************************)
(* main(): the end of a run.                                               *)
(***************************************************************************)
\* lines 176-178
MainExcept ==
    /\ pc = "main_except"
    /\ log' = Append(log, Line("error", "Fatal error", <<>>))
    /\ pc' = "died"
    /\ UNCHANGED <<store, env, args, locals, exc, exitStatus, reader,
                   hist>>

\* the exit status of a run that ends with the exception e in flight
ExitCode(e) == IF e = "none" THEN 0 ELSE 1

\* the process exits with the exception e in flight (or none): its memory
\* is gone, its connection is closed, and what the connection had not
\* committed is rolled back; its output and its exit status remain
Exit(e) ==
    /\ exitStatus' = ExitCode(e)
    /\ conn' = FALSE
    /\ txn' = <<>>
    /\ pc' = "idle"
    /\ mode' = "single"
    /\ limit' = DefaultLimit
    /\ interval_ms' = DefaultInterval
    /\ duration_seconds' = DefaultDuration
    /\ end_time' = 0
    /\ timestamp' = 0
    /\ gpu_temp' = None
    /\ cmd_output' = NoOutput
    /\ results' = <<>>
    /\ exc' = "none"
    /\ db0' = <<>>
    /\ ticks' = 0
    /\ sensorReads' = 0
    /\ okReads' = 0
    /\ start_clock' = 0
    /\ readerResult' = <<>>
    /\ readerPending' = FALSE
    /\ UNCHANGED <<db, tableExists, env, log, atInterrupt, failedAt>>

\* main returns
MainReturn ==
    /\ pc = "main_exit"
    /\ Exit(exc)

\* an exception leaves main
ProcessDies ==
    /\ pc = "died"
    /\ Exit(exc)

(***************************************************************************)
(* The environment: the clock, and a second process that queries.          *)
(***************************************************************************)
\* time passes: as far as the model follows it, and in any case until the
\* end of a monitoring run that is under way
ClockAdvance ==
    /\ clock < MaxClock \/ (mode = "monitor" /\ clock < end_time)
    /\ clock' = clock + ClockStep
    /\ UNCHANGED <<store, tzOffset, args, locals, pc, exc, exitStatus, log,
                   reader, hist>>

\* the local time is set back (the end of daylight saving time)
LocalTimeSetBack ==
    /\ tzOffset = ClockStep
    /\ tzOffset' = 0
    /\ UNCHANGED <<store, clock, args, locals, pc, exc, exitStatus, log, 
                   reader, hist>>

\* a connection of another process reading what is not committed
Visible_Uncommitted(rows, pending) == rows \o pending

\* the rows a connection of another process sees: what is committed, not
\* what the writer's connection holds in its open transaction
Visible(rows, pending) == rows

\* a second process runs main() with --query and the default limit while
\* this one is running, wherever it is: init_database, then
\* query_temperatures
ReaderRun ==
    /\ pc # "idle"
    /\ db' = CreateTableIfNotExists(tableExists, db)
    /\ tableExists' = TRUE
    /\ readerResult' \in SelectRecent(Visible(db', txn), DefaultLimit)
    /\ readerPending' = (txn # <<>>)
    /\ UNCHANGED <<txn, conn, env, args, locals, pc, exc, exitStatus, log,
                   hist>>

(***************************************************************************)
(* The specification.                                                      *)
(***************************************************************************)
Next ==
    \/ StartRun
    \/ InitConnect \/ InitExecute \/ InitCommit \/ InitClose \/ InitExcept
    \/ MainDispatch
    \/ LogTimestamp \/ ReadSensor \/ LogConnect \/ LogExecute \/ LogCommit
    \/ LogClose \/ LogInfo \/ LogReturn \/ LogExcept
    \/ MonStart \/ MonLoopEnter \/ MonLoopExit \/ MonSleep \/ MonDone
    \/ MonInterrupted \/ MonExcept
    \/ QueryConnect \/ QuerySelect \/ QueryClose \/ QueryRender \/ QueryExcept
    \/ StorageFailure \/ Interrupt
    \/ MainExcept \/ MainReturn \/ ProcessDies
    \/ ClockAdvance \/ LocalTimeSetBack
    \/ ReaderRun

Spec == Init /\ [][Next]_vars

(***************************************************************************)
(* Monitoring runs alone, one after another on the same database file,     *)
(* with the fairness the termination of the loop rests on.                 *)
(***************************************************************************)
StartMonitorRun ==
    \E i \in Intervals : \E d \in Durations : Start("monitor", DefaultLimit, i, d)

\* a step of a monitoring run that neither fails nor is interrupted
MonitorStep ==
    \/ InitConnect \/ InitExecute \/ InitCommit \/ InitClose \/ InitExcept
    \/ MainDispatch
    \/ LogTimestamp \/ ReadSensor \/ LogConnect \/ LogExecute \/ LogCommit
    \/ LogClose \/ LogInfo \/ LogReturn \/ LogExcept
    \/ MonStart \/ MonLoopEnter \/ MonLoopExit \/ MonSleep \/ MonDone
    \/ MonInterrupted \/ MonExcept
    \/ MainExcept \/ MainReturn \/ ProcessDies

MonitorNext ==
    \/ StartMonitorRun
    \/ MonitorStep
    \/ StorageFailure \/ Interrupt
    \/ ClockAdvance \/ LocalTimeSetBack

\* the clock advances, and the running process takes its next step: the
\* sensor command, the store and the wait all return
MonitorLiveSpec ==
    /\ Init
    /\ [][MonitorNext]_vars
    /\ WF_vars(ClockAdvance)
    /\ WF_vars(MonitorStep)

(***************************************************************************)
(* get_gpu_temperature alone: one call on every output the sensor command  *)
(* can give within the bounds.                                             *)
(***************************************************************************)
SensorInit ==
    /\ FreshState
    /\ pc = "sensor_call"
    /\ cmd_output \in CommandOutputs

\* lines 24-29: the call returns
SensorReturn ==
    /\ pc = "sensor_call"
    /\ gpu_temp' = get_gpu_temperature(cmd_output)
    /\ log' = log \o get_gpu_temperature_log(cmd_output)
    /\ pc' = "sensor_done"
    /\ UNCHANGED <<store, env, args, end_time, timestamp, cmd_output, results,
                   exc, exitStatus, reader, hist>>

SensorNext == SensorReturn

SensorSpec == SensorInit /\ [][SensorNext]_vars

(***************************************************************************)
(* Properties.                                                             *)
(***************************************************************************)
IsPrefix(s, t) == Len(s) <= Len(t) /\ SubSeq(t, 1, Len(s)) = s

NoInterrupt == atInterrupt = <<>>
NoFailure == failedAt = ""

HasLine(level, msg) ==
    \E i \in 1..Len(log) : log[i].level = level /\ log[i].msg = msg

\* the line with msg1 comes before the line with msg2
LineBefore(msg1, msg2) ==
    \E i, j \in 1..Len(log) : i < j /\ log[i].msg = msg1 /\ log[j].msg = msg2

\* the error line of the function in which a storage step at p failed
CauseLine(p) ==
    IF HandlerOf(p) = "init_except" THEN "initializing database"
    ELSE IF HandlerOf(p) = "log_except" THEN "logging temperature to database"
    ELSE "querying temperatures"

\* C1: the store holds only successful samples: no row has a null
\* timestamp or a null temperature, a cycle whose read gave no value goes
\* to its end without opening the store, a run adds at most as many rows as
\* it had reads with a value, and the row a cycle has committed carries the
\* timestamp and the value of that cycle.
C1_OnlySuccessfulSamples ==
    /\ \A i \in 1..Len(db) :
        /\ db[i].temperature # None
        /\ db[i].timestamp \in Int
    /\ \A i \in 1..Len(txn) : txn[i].temperature # None
    /\ pc # "idle" => Len(db) + Len(txn) <= Len(db0) + okReads
    /\ pc \in {"log_connect", "log_execute", "log_commit", "log_close", "log_info"}
          => gpu_temp # None
    /\ pc \in {"log_close", "log_info"}
          => /\ db # <<>>
             /\ db[Len(db)] = Row(Len(db), timestamp, gpu_temp)

\* C1 witness: a monitoring run whose first read gave no value and whose
\* second read gave one has just committed its only row.
C1_Witness ==
    /\ mode = "monitor"
    /\ pc = "log_close"
    /\ sensorReads = 2
    /\ okReads = 1
    /\ Len(db) = Len(db0) + 1

\* C2: a storage failure is fatal: once a storage step has raised (and no
\* interrupt is delivered), the run is only ever in the handlers on the way
\* out of main, no further cycle starts, and the process has ended with a
\* non-zero status after the error line of the failing function and the
\* fatal line of main were logged.
C2_StorageFailureFatal ==
    (~NoFailure /\ NoInterrupt) =>
        /\ pc \in {HandlerOf(failedAt), "mon_except", "main_except", "died", "idle"}
        /\ pc = "mon_except" => HandlerOf(failedAt) = "log_except"
        /\ pc # "idle" => exc = "sqlite"
        /\ pc \in {"died", "idle"}
              => /\ HasLine("error", CauseLine(failedAt))
                 /\ LineBefore(CauseLine(failedAt), "Fatal error")
        /\ pc = "idle" => exitStatus # 0

\* C2 witness: the commit of the second cycle of a monitoring run failed
\* and the exception has left main.
C2_Witness ==
    /\ mode = "monitor"
    /\ pc = "died"
    /\ ticks = 2
    /\ failedAt = "log_commit"
    /\ NoInterrupt

\* C3: a failed sensor read is no error and does not stop the loop: in a
\* monitoring run without storage failure and interrupt no exception is in
\* flight and no handler runs, a cycle whose read gave no value goes on to
\* the wait, the loop is left only when the duration has elapsed, and
\* between cycles the store has gained exactly one row per read that gave
\* a value.
C3_FailedReadIsNoError ==
    (mode = "monitor" /\ NoFailure /\ NoInterrupt /\ pc # "idle") =>
        /\ exc = "none"
        /\ pc \notin {"log_except", "mon_except", "main_except", "died", "mon_kbint"}
        /\ pc \in {"mon_done", "main_exit"} => clock >= end_time
        /\ pc \in {"mon_test", "mon_sleep", "mon_done", "main_exit"}
              => /\ sensorReads = ticks
                 /\ Len(db) = Len(db0) + okReads
                 /\ IsPrefix(db0, db)

\* C3 witness: a monitoring run of two cycles in which every read failed
\* has returned to main, the store as it was.
C3_Witness ==
    /\ mode = "monitor"
    /\ pc = "main_exit"
    /\ NoFailure /\ NoInterrupt
    /\ ticks = 2
    /\ okReads = 0
    /\ db = db0
    /\ db # <<>>

\* C4: an interrupt delivered inside monitor_temperature's try block ends
\* the run gracefully: the run goes straight to the interrupt handler and
\* from there to the end of main, no cycle starts and no wait completes
\* after it, no exception is in flight when main ends, the rows committed
\* before it are the content of the store, and the process exits with
\* status 0.
C4_InterruptIsGraceful ==
    (~NoInterrupt /\ atInterrupt[1].mode = "monitor"
       /\ atInterrupt[1].pc \in MonitorTryPcs) =>
        /\ pc \in {"mon_kbint", "main_exit", "idle"}
        /\ db = atInterrupt[1].db
        /\ pc # "idle" => ticks = atInterrupt[1].ticks
        /\ pc = "main_exit" => exc = "none" /\ HasLine("info", "Temperature monitoring stopped by user")
        /\ pc = "idle" => exitStatus = 0

\* C4 witness: a monitoring run that had committed a row was interrupted
\* in its wait and has returned to main.
C4_Witness ==
    /\ ~NoInterrupt
    /\ atInterrupt[1].pc = "mon_sleep"
    /\ pc = "main_exit"
    /\ mode = "monitor"
    /\ Len(db) > Len(db0)
    /\ clock < end_time

\* the n rows inserted last, the last inserted first
NewestInsertedFirst(rows, n) ==
    [i \in 1..LimitCount(n, Len(rows)) |-> Selected(rows[Len(rows) + 1 - i])]

\* C5: for every limit N >= 1 the query yields the N rows inserted last
\* (all rows when there are fewer), the last inserted first.
C5_RecentIsNewestInserted ==
    (pc = "query_close" /\ limit >= 1) => results = NewestInsertedFirst(db, limit)

\* C6: a query with limit 1 right after the insert of (timestamp,
\* gpu_temp) has been committed returns exactly that one row.
C6_InsertThenRecentOne ==
    pc = "log_close" => SelectRecent(db, 1) = { << <<timestamp, gpu_temp>> >> }

\* C7: what a second process fetches holds committed rows only, each with
\* its timestamp and its value: never more rows than are committed, also
\* when it reads while the writer has executed its insert and not committed
\* it; and a row whose cycle was cut off before the commit, by an interrupt
\* or by a failing storage step, does not reach the store.
C7_ReaderSeesOnlyCommitted ==
    /\ Len(readerResult) <= Len(db)
    /\ \A i \in 1..Len(readerResult) :
        /\ \E j \in 1..Len(db) : readerResult[i] = Selected(db[j])
        /\ readerResult[i][1] \in Int
        /\ readerResult[i][2] # None
    /\ ~NoInterrupt => db = atInterrupt[1].db
    /\ (~NoFailure /\ pc # "idle" /\ HandlerOf(failedAt) = "log_except")
          => Len(db) = Len(db0) + okReads - 1

\* C7 witness: the second process has fetched while the insert of the
\* running cycle was executed and not committed, with a row committed
\* before.
C7_Witness ==
    /\ pc = "log_commit"
    /\ txn # <<>>
    /\ readerPending
    /\ db # <<>>
    /\ Len(readerResult) = Len(db)

\* positions inside monitor_temperature
InMonitor ==
    mode = "monitor" /\ pc \in MonitorTryPcs \cup {"mon_kbint", "mon_except"}

\* C8: a cycle starts only while the clock is before start + duration, so
\* a duration of 0 runs no cycle; the loop is left normally only once the
\* duration has elapsed; and monitor_temperature, once entered, ends.
C8_StopsWhenDurationElapsed ==
    /\ [][(pc = "mon_test" /\ pc' = "log_now")
            => clock < start_clock + duration_seconds * MsPerSec]_vars
    /\ [](mode = "monitor" /\ duration_seconds = 0 => ticks = 0)
    /\ [](mode = "monitor" /\ pc = "mon_done"
            => clock >= start_clock + duration_seconds * MsPerSec)
    /\ (InMonitor ~> ~InMonitor)

\* C8 witness: a monitoring run of one second has left the loop after two
\* cycles.
C8_Witness ==
    /\ mode = "monitor"
    /\ pc = "mon_done"
    /\ duration_seconds = 1
    /\ ticks = 2

\* C9: a single-shot run reads the sensor at most once, and when it has
\* returned to main it has run one cycle and read the sensor once, and the
\* store has gained the one row (timestamp, gpu_temp) of that cycle if the
\* read gave a value and nothing if it gave none.
C9_SingleShotOneCycle ==
    (mode = "single" /\ pc # "idle") =>
        /\ ticks <= 1
        /\ sensorReads <= 1
        /\ pc = "main_exit" =>
            /\ ticks = 1
            /\ sensorReads = 1
            /\ db = IF gpu_temp # None
                    THEN Append(db0, Row(Len(db0) + 1, timestamp, gpu_temp))
                    ELSE db0

\* C9 witness: a single-shot run on a store of one row has returned to
\* main with a value read.
C9_Witness ==
    /\ mode = "single"
    /\ pc = "main_exit"
    /\ gpu_temp = Some(62)
    /\ Len(db0) = 1
    /\ Len(db) = 2

\* C10: init_database on a store that has the table leaves the rows as
\* they are and does not fail: up to the end of init_database the rows are
\* those the run found, the table exists once the statement has run, and
\* the handler of init_database runs only after a storage step has raised.
C10_InitIdempotent ==
    /\ pc \in {"init_connect", "init_execute", "init_commit", "init_close",
               "init_except", "dispatch"} => db = db0
    /\ pc \in {"init_commit", "init_close", "dispatch"} => tableExists
    /\ pc = "init_except" => ~NoFailure /\ HandlerOf(failedAt) = "init_except"

\* C10 witness: init_database has run to its end on a store that held two
\* rows, so at least for the third time.
C10_Witness ==
    /\ pc = "dispatch"
    /\ Len(db0) = 2
    /\ db = db0

(***************************************************************************)
(* The command that get_gpu_temperature ran has failed: it exited with a   *)
(* status other than 0, or what it printed is not one integer.             *)
(***************************************************************************)
CommandFailed(out) == out.status # 0 \/ ~IntParses(out.text)

\* C11: whenever the sensor command fails (missing tool, non-zero exit status
\* even after printing a number, empty output, non-numeric output, any output
\* that is not one integer), get_gpu_temperature returns None.
C11_AbsentOnEveryFailure ==
    pc = "sensor_done" /\ CommandFailed(cmd_output) => gpu_temp = None

\* the lines of the log that tell of a sampling cycle: the reading logged by
\* line 78, the read error logged by line 28
TickLines ==
    Cardinality({ i \in 1..Len(log) :
        log[i].msg \in {"GPU Temperature", "getting GPU temperature"} })

\* C12: every sampling cycle of a single-shot or monitoring run, whether its
\* read gave a value or not, has left a log line of its own by the time the
\* next cycle starts or the run ends.
C12_EveryTickLogged ==
    /\ pc = "log_now" => TickLines >= ticks
    /\ pc = "main_exit" /\ mode # "query" /\ NoInterrupt /\ NoFailure
           => TickLines >= ticks

\* C13: query_temperatures leaves the table as it found it, whatever the
\* rows and the limit, when it returns and when it raises.
C13_QueryLeavesStore ==
    mode = "query" /\ pc # "idle" => db = db0 /\ txn = <<>>

C13_Witness ==
    /\ mode = "query"
    /\ pc = "main_exit"
    /\ Len(db) >= 2
    /\ results # <<>>

\* the notice of line 142
NoReadingsNotice ==
    <<Line("info", "No temperature readings found in database", <<>>)>>

\* C14: a query with limit 0 on any table, and a query with any limit on an
\* empty table, gets the empty sequence and no error, and what
\* query_temperatures then shows is the no-readings notice alone.
C14_EmptyRecent ==
    /\ SelectRecent(db, 0) = {<<>>}
    /\ db = <<>> => \A n \in Limits : SelectRecent(db, n) = {<<>>}
    /\ mode = "query" /\ (limit = 0 \/ db = <<>>)
         => /\ pc \in {"query_close", "query_render"} => results = <<>>
            /\ pc = "query_except" => ~NoFailure
            /\ pc = "main_exit" => log = NoReadingsNotice

C14_Witness ==
    /\ mode = "query"
    /\ pc = "main_exit"
    /\ limit = 0
    /\ Len(db) >= 2
    /\ log = NoReadingsNotice

\* C15: whatever init_database, log_temperature, monitor_temperature and
\* query_temperatures do, in any order and any number of times, the rows of
\* the table before a step are a prefix of the rows after it: a row is never
\* changed and never deleted.
C15_AppendOnly == [][IsPrefix(db, db')]_vars

C15_Witness ==
    /\ pc = "log_close"
    /\ Len(db0) = 1
    /\ Len(db) = 2
    /\ IsPrefix(db0, db)

(***************************************************************************)
(* The decimal text of an integer, as nvidia-smi prints a temperature.     *)
(***************************************************************************)
DigitChar(d) ==
    CASE d = 0 -> "0" [] d = 1 -> "1" [] d = 2 -> "2" [] d = 3 -> "3"
      [] d = 4 -> "4" [] d = 5 -> "5" [] d = 6 -> "6" [] d = 7 -> "7"
      [] d = 8 -> "8" [] d = 9 -> "9"

RECURSIVE NatText(_)
NatText(n) ==
    IF n < 10 THEN <<DigitChar(n)>>
    ELSE Append(NatText(n \div 10), DigitChar(n % 10))

DecimalText(v) == IF v < 0 THEN <<"-">> \o NatText(0 - v) ELSE NatText(v)

Temperatures == (0 - MaxTemp)..MaxTemp

\* C16: when the sensor command succeeds and what it printed, stripped of
\* the whitespace around it, is the decimal text of an integer V,
\* get_gpu_temperature returns V.
C16_ValidOutputIsReturned ==
    pc = "sensor_done" /\ cmd_output.status = 0
        => \A v \in Temperatures :
               strip(cmd_output.text) = DecimalText(v) => gpu_temp = Some(v)

C16_Witness ==
    /\ pc = "sensor_done"
    /\ cmd_output = [status |-> 0, text |-> <<"6", "2", "\n">>]
    /\ strip(cmd_output.text) = DecimalText(62)
    /\ gpu_temp = Some(62)

\* C17: in a monitoring run a cycle that returns goes to the wait of line
\* 106 (or to the handler of an interrupt), the loop condition of line 104
\* is evaluated only at the start of the loop and after one wait of
\* interval_ms, the wait follows nothing but a returned cycle, and a cycle
\* starts only from the loop condition: after every cycle, the last one
\* too, there is exactly one wait before the condition is evaluated again.
C17_WaitAfterEveryCycle ==
    [][ mode = "monitor" /\ pc' # pc =>
          /\ pc = "log_return" => pc' \in {"mon_sleep", "mon_kbint"}
          /\ pc' = "mon_test" =>
                \/ pc = "mon_start"
                \/ pc = "mon_sleep" /\ clock' = clock + interval_ms
          /\ pc' = "mon_sleep" => pc = "log_return"
          /\ pc' = "log_now" => pc = "mon_test" /\ LoopContinues(clock, end_time)
          /\ pc' = "mon_done" => pc = "mon_test" ]_vars

C17_Witness ==
    /\ mode = "monitor"
    /\ pc = "mon_test"
    /\ ticks >= 1
    /\ gpu_temp = None
    /\ interval_ms > 0
    /\ clock >= start_clock + ticks * interval_ms
    /\ ~LoopContinues(clock, end_time)

\* the positions of a run outside the connect ... close of init_database,
\* log_temperature and query_temperatures, exception handling aside
HandleFreePcs ==
    {"dispatch", "mon_start", "mon_test", "mon_sleep", "mon_done",
     "log_now", "log_read", "log_connect", "log_info", "log_return",
     "query_connect", "query_render"}

\* C18: every insert and every query opens a connection of its own and has
\* closed it when it returns normally, so the sampling process holds no open
\* connection and no open transaction while it waits between two cycles.
C18_NoHandleAcrossWait ==
    pc \in HandleFreePcs => ~conn /\ txn = <<>>

C18_Witness ==
    /\ mode = "monitor"
    /\ pc = "mon_sleep"
    /\ Len(db) > Len(db0)
    /\ ~conn
    /\ txn = <<>>

\* a storage step of init_database has raised in this run
InitFailed == failedAt \in {"init_connect", "init_execute", "init_commit"}

\* the positions of main after line 167
AfterInitPcs ==
    {"dispatch", "mon_start", "mon_test", "mon_sleep", "mon_done",
     "mon_except", "mon_kbint", "query_connect", "query_select",
     "query_close", "query_render", "query_except", "main_exit"}
    \cup LogPcs

\* C19: in every run of main, in each of the three modes, the first insert
\* or query comes after init_database has run to its end: main reaches line
\* 169 only from the close of line 49, and the table exists from then on.
\* If a step of init_database raises, no cycle and no query is made, the
\* table is left as it was, and the exception leaves main: the process
\* ends with a non-zero status.
C19_InitBeforeAnyOperation ==
    /\ [](pc \in AfterInitPcs => tableExists /\ ~InitFailed)
    /\ [](InitFailed =>
             /\ pc \in {"init_except", "main_except", "died", "idle"}
             /\ pc # "idle" =>
                   /\ exc # "none"
                   /\ ticks = 0 /\ sensorReads = 0
                   /\ results = <<>>
                   /\ db = db0
             /\ pc = "idle" => exitStatus # 0)
    /\ [][ /\ pc' = "dispatch" /\ pc # "dispatch" => pc = "init_close"
           /\ pc' \in {"mon_start", "query_connect"} /\ pc' # pc
                 => pc = "dispatch"
           /\ pc' = "log_now" /\ pc # "log_now"
                 => pc \in {"dispatch", "mon_test"} ]_vars

C19_Witness ==
    /\ mode = "monitor"
    /\ pc = "died"
    /\ failedAt = "init_execute"
    /\ ticks = 0
    /\ db = db0

====
